---- MODULE Spec2Model ----
(***************************************************************************)
(* grocery_notify.py: one module-level fetch of the Notion grocery         *)
(* database, a classification loop over the fetched records, and a         *)
(* Pushover notification, driven by lambda_handler or main.                *)
(*                                                                         *)
(* Texts are sequences of lines: "\n".join is concatenation of lines and   *)
(* "\n\n".join is concatenation with one blank line in between.  Calendar  *)
(* dates are <<year, month, day>> triples.                                 *)
(***************************************************************************)
EXTENDS Integers, Sequences, FiniteSets, TLC

VARIABLES
    clock,            \* the calendar date datetime.today() would return now
    store,            \* the records the Notion database holds now
    runtime,          \* "script" (python grocery_notify.py) or "lambda"
    PUSHOVER_TOKEN,   \* os.getenv("PUSHOVER_TOKEN")
    PUSHOVER_USER,    \* os.getenv("PUSHOVER_USER")
    loaded,           \* module import: "no", "ok" or "failed"
    res_list,         \* module global res_list
    today,            \* module global today
    pc,               \* position of the running entry point
    idx,              \* 1-based position of the for loop in build_alert_message
    imminent,         \* local imminent of build_alert_message
    expired,          \* local expired of build_alert_message
    message,          \* local message of the entry point
    err,              \* the exception that ended the run, "" when none
    io,               \* every outbound call and console line, in program order
    inv,              \* entry-point invocations started in this process
    ticks,            \* midnights passed since the process started
    execClock,        \* clock when the current execution started
    execStore         \* store when the current execution started

vars == <<clock, store, runtime, PUSHOVER_TOKEN, PUSHOVER_USER, loaded, res_list,
          today, pc, idx, imminent, expired, message, err, io, inv, ticks,
          execClock, execStore>>

-----------------------------------------------------------------------------
(* Bounds of the model *)

MaxRecords == 2       \* records in a collection handed to build_alert_message
MaxStored == 2        \* records in the database of a whole process run
MaxInvocations == 2   \* entry-point invocations in one process
MaxTicks == 1         \* midnights passed while the process lives

-----------------------------------------------------------------------------
(* Python values *)

None == "<None>"      \* Python's None where a string is expected
NoDate == <<0, 0, 0>> \* placeholder triple where no date applies

\* str(v) as an f-string renders it
Str(v) == IF v = None THEN "None" ELSE v

\* A "Expire On" property: the date object is null, its start is null, or
\* start is an ISO 8601 string with an optional time part
DateNull == [kind |-> "date_null", date |-> NoDate, time |-> ""]
StartNull == [kind |-> "start_null", date |-> NoDate, time |-> ""]
Start(d, t) == [kind |-> "start", date |-> d, time |-> t]

\* One element of res_list: {"properties": {...}}
Record(name, status, expire, balance) ==
    [Name |-> name, Status |-> status, ExpireOn |-> expire, Balance |-> balance]

MissingStatus == "<no Status property>"
AbsentString == "<no string>"

-----------------------------------------------------------------------------
(* Calendar arithmetic of datetime.date *)

IsLeap(y) == (y % 4 = 0 /\ y % 100 # 0) \/ y % 400 = 0

DaysInMonth(y, m) ==
    IF m = 2 THEN (IF IsLeap(y) THEN 29 ELSE 28)
    ELSE IF m \in {4, 6, 9, 11} THEN 30 ELSE 31

RECURSIVE DaysBeforeMonth(_, _)
DaysBeforeMonth(y, m) ==
    IF m = 1 THEN 0 ELSE DaysBeforeMonth(y, m - 1) + DaysInMonth(y, m - 1)

DaysBeforeYear(y) ==
    (y - 1) * 365 + ((y - 1) \div 4) - ((y - 1) \div 100) + ((y - 1) \div 400)

\* date.toordinal()
ToOrdinal(d) == DaysBeforeYear(d[1]) + DaysBeforeMonth(d[1], d[2]) + d[3]

\* (a - b).days
DaysBetween(a, b) == ToOrdinal(a) - ToOrdinal(b)

\* a < b on dates: year, then month, then day
DateLess(a, b) ==
    \/ a[1] < b[1]
    \/ a[1] = b[1] /\ a[2] < b[2]
    \/ a[1] = b[1] /\ a[2] = b[2] /\ a[3] < b[3]

\* the date one midnight later
NextDay(d) ==
    IF d[3] < DaysInMonth(d[1], d[2]) THEN <<d[1], d[2], d[3] + 1>>
    ELSE IF d[2] < 12 THEN <<d[1], d[2] + 1, 1>>
    ELSE <<d[1] + 1, 1, 1>>

-----------------------------------------------------------------------------
(* Field extractors.  Each returns [raised, value]: raised names the       *)
(* exception the extractor propagates, "" when it returns normally.        *)

Returned(v) == [raised |-> "", value |-> v]
Raised(e) == [raised |-> e, value |-> None]

\* the literal of line 49, Korean for "(no title)"
PlaceholderTitle == "(no title)"

get_title(item) ==
    IF item.Name # <<>> THEN Returned(item.Name[1]) ELSE Returned(PlaceholderTitle)

get_status(item) ==
    IF item.Status = MissingStatus THEN Raised("KeyError") ELSE Returned(item.Status)

\* datetime.fromisoformat(expire).date(): the time part is dropped
FromIsoFormatDate(expire) == expire.date

get_expire_date_epoch(item) ==
    IF item.ExpireOn.kind = "date_null" THEN Raised("TypeError")
    ELSE IF item.ExpireOn.kind = "start_null" THEN Returned(<<1970, 1, 1>>)
    ELSE Returned(FromIsoFormatDate(item.ExpireOn))

get_expire_date(item) ==
    IF item.ExpireOn.kind = "date_null" THEN Raised("TypeError")
    ELSE IF item.ExpireOn.kind = "start_null" THEN Returned(NoDate)
    ELSE Returned(FromIsoFormatDate(item.ExpireOn))

get_balance_quantity(item) ==
    IF item.Balance = AbsentString THEN Returned(None) ELSE Returned(item.Balance)

-----------------------------------------------------------------------------
(* build_alert_message *)

IsWatched_any(status) == TRUE

IsWatched(status) == status \in {"Consuming", "Before"}

IsImminent_exclusive(days_left) == 0 <= days_left /\ days_left < 3

IsImminent(days_left) == 0 <= days_left /\ days_left <= 3

IsExpired(expire_on, day) == DateLess(expire_on, day)

Abs(n) == IF n < 0 THEN -n ELSE n

\* "  * {title} | remaining: {balance} | D-{days_left} (~{expire_on})"
ImminentLine(title, balance, days_left, expire_on) ==
    [mark |-> "D-", title |-> title, balance |-> Str(balance), n |-> days_left,
     date |-> expire_on]

\* "  * {title} | remaining: {balance} | D+{abs(days_left)} (~{expire_on})"
ExpiredLine(title, balance, days_left, expire_on) ==
    [mark |-> "D+", title |-> title, balance |-> Str(balance),
     n |-> Abs(days_left), date |-> expire_on]

ImminentHeader == [header |-> "imminent"]
ExpiredHeader == [header |-> "expired"]
BlankLine == [blank |-> TRUE]
Fallback == <<[fallback |-> TRUE]>>

\* the exception the four extractor calls of one iteration propagate, in
\* call order: get_title, get_balance_quantity, get_expire_date, get_status
IterationRaises(item) ==
    IF get_title(item).raised # "" THEN get_title(item).raised
    ELSE IF get_balance_quantity(item).raised # "" THEN get_balance_quantity(item).raised
    ELSE IF get_expire_date(item).raised # "" THEN get_expire_date(item).raised
    ELSE get_status(item).raised

\* the buckets after one iteration that raised nothing
ImminentAfter(item, day, bucket) ==
    LET title == get_title(item).value
        balance == get_balance_quantity(item).value
        expire_on == get_expire_date(item).value
        status == get_status(item).value
        days_left == DaysBetween(expire_on, day)
    IN  IF expire_on = NoDate THEN bucket
        ELSE IF IsWatched(status) /\ IsImminent(days_left)
             THEN Append(bucket, ImminentLine(title, balance, days_left, expire_on))
             ELSE bucket

ExpiredAfter(item, day, bucket) ==
    LET title == get_title(item).value
        balance == get_balance_quantity(item).value
        expire_on == get_expire_date(item).value
        status == get_status(item).value
        days_left == DaysBetween(expire_on, day)
    IN  IF expire_on = NoDate THEN bucket
        ELSE IF IsWatched(status) /\ IsExpired(expire_on, day)
             THEN Append(bucket, ExpiredLine(title, balance, days_left, expire_on))
             ELSE bucket

JoinSections_unseparated(sections) ==
    IF sections = <<>> THEN <<>>
    ELSE IF Len(sections) = 1 THEN sections[1]
    ELSE sections[1] \o sections[2]

\* "\n\n".join(messages)
RECURSIVE JoinSections(_)
JoinSections(sections) ==
    IF sections = <<>> THEN <<>>
    ELSE IF Len(sections) = 1 THEN sections[1]
    ELSE sections[1] \o <<BlankLine>> \o JoinSections(Tail(sections))

\* lines 115-124: the text built from the two buckets
ComposeMessage(imm, exp) ==
    LET messages ==
            (IF imm # <<>> THEN << <<ImminentHeader>> \o imm >> ELSE <<>>)
            \o (IF exp # <<>> THEN << <<ExpiredHeader>> \o exp >> ELSE <<>>)
    IN  IF messages = <<>> THEN Fallback ELSE JoinSections(messages)

-----------------------------------------------------------------------------
(* Inputs *)

SeqsUpTo(S, n) == UNION {[1..k -> S] : k \in 0..n}

Todays == {<<2023, 12, 30>>, <<2024, 1, 10>>, <<2024, 2, 27>>}

ExpireDates ==
    {<<2024, 1, 2>>, <<2024, 1, 5>>, <<2024, 1, 9>>, <<2024, 1, 10>>,
     <<2024, 1, 12>>, <<2024, 1, 13>>, <<2024, 1, 14>>, <<2024, 3, 1>>}

ExpireValues ==
    {DateNull, StartNull, Start(<<2024, 1, 12>>, "T09:00:00.000+09:00")}
    \cup {Start(d, "") : d \in ExpireDates}

\* the records build_alert_message is checked on
Palette ==
    {Record(<<"Milk">>, s, e, "2 L") : s \in {"Consuming", "Done"}, e \in ExpireValues}
    \cup {Record(<<"Tofu">>, "Before", Start(d, ""), "1 pack") :
            d \in {<<2024, 1, 5>>, <<2024, 1, 10>>, <<2024, 1, 14>>}}
    \cup {Record(<<"Eggs">>, MissingStatus, e, "6 ea") :
            e \in {StartNull, Start(<<2024, 1, 12>>, "")}}
    \cup {Record(<<>>, "Consuming", Start(<<2024, 1, 12>>, ""), AbsentString),
          Record(<<"Soy", "Milk">>, "Before", Start(<<2024, 1, 5>>, ""), "2 L")}

\* the records a whole process run is checked on
StoredPalette ==
    {Record(<<"Milk">>, "Consuming", Start(<<2024, 1, 12>>, ""), "2 L"),
     Record(<<"Tofu">>, "Before", Start(<<2024, 1, 9>>, ""), "1 pack"),
     Record(<<"Eggs">>, MissingStatus, Start(<<2024, 1, 12>>, ""), "6 ea"),
     Record(<<"Salt">>, "Consuming", DateNull, AbsentString)}

\* the date the process starts on
StartDay == <<2024, 1, 9>>

Tokens == {None, "app-token"}
Users == {None, "", "user-key"}

-----------------------------------------------------------------------------
(* Events of io *)

Event(chan, what, k, body) == [chan |-> chan, what |-> what, inv |-> k, body |-> body]

\* requests.post(url, headers=NOTION_HEADERS, json={}, timeout=10)
QueryCall(k) == Event("notion", "POST", k, <<>>)

\* print("[alert message]\n", message)
MessagePrinted(k, text) == Event("console", "message", k, text)

\* requests.post(url, data=payload, timeout=10)
PushoverCall(k, token, user, title, text) ==
    Event("pushover", "POST", k,
          [token |-> token, user |-> user, title |-> title, message |-> text])

\* print("[Pushover sent]", response.get("status"))
SentPrinted(k) == Event("console", "sent", k, <<>>)

\* print("[warning] PUSHOVER_TOKEN or PUSHOVER_USER not set ...")
WarningPrinted(k) == Event("console", "warning", k, <<>>)

-----------------------------------------------------------------------------
(* Module import, lines 33-37 *)

\* fetch_items(), res_list and today at import time
LoadModule ==
    /\ loaded = "no"
    /\ \E outcome \in {"ok", "HTTPError", "Timeout"} :
        /\ io' = Append(io, QueryCall(inv))
        /\ IF outcome = "ok"
           THEN /\ loaded' = "ok"
                /\ res_list' = store
                /\ today' = clock
                /\ UNCHANGED <<pc, err>>
           ELSE /\ loaded' = "failed"
                /\ pc' = "failed"
                /\ err' = outcome
                /\ UNCHANGED <<res_list, today>>
    /\ execClock' = clock
    /\ execStore' = store
    /\ UNCHANGED <<clock, store, runtime, PUSHOVER_TOKEN, PUSHOVER_USER, idx,
                   imminent, expired, message, inv, ticks>>

-----------------------------------------------------------------------------
(* Entry points *)

\* the call of build_alert_message(res_list) that opens both entry points.
\* The first invocation belongs to the execution that imported the module;
\* a later one starts a new execution in the same process.
EnterBuild ==
    /\ inv' = inv + 1
    /\ pc' = "build"
    /\ idx' = 1
    /\ imminent' = <<>>
    /\ expired' = <<>>
    /\ message' = <<>>
    /\ err' = ""
    /\ IF inv = 0
       THEN UNCHANGED <<execClock, execStore>>
       ELSE execClock' = clock /\ execStore' = store
    /\ UNCHANGED <<clock, store, runtime, PUSHOVER_TOKEN, PUSHOVER_USER, loaded,
                   res_list, today, io, ticks>>

lambda_handler ==
    /\ runtime = "lambda"
    /\ loaded = "ok"
    /\ pc \in {"idle", "done", "failed"}
    /\ inv < MaxInvocations
    /\ EnterBuild

main ==
    /\ runtime = "script"
    /\ loaded = "ok"
    /\ pc = "idle"
    /\ inv = 0
    /\ EnterBuild

\* one iteration of the for loop, lines 97-113
LoopBody_skip_malformed ==
    /\ pc = "build"
    /\ idx <= Len(res_list)
    /\ LET item == res_list[idx] IN
        IF IterationRaises(item) # ""
        THEN /\ idx' = idx + 1
             /\ UNCHANGED <<pc, err, imminent, expired>>
        ELSE /\ imminent' = ImminentAfter(item, today, imminent)
             /\ expired' = ExpiredAfter(item, today, expired)
             /\ idx' = idx + 1
             /\ UNCHANGED <<pc, err>>
    /\ UNCHANGED <<clock, store, runtime, PUSHOVER_TOKEN, PUSHOVER_USER, loaded,
                   res_list, today, message, io, inv, ticks, execClock, execStore>>

LoopBody ==
    /\ pc = "build"
    /\ idx <= Len(res_list)
    /\ LET item == res_list[idx] IN
        IF IterationRaises(item) # ""
        THEN /\ pc' = "failed"
             /\ err' = IterationRaises(item)
             /\ UNCHANGED <<idx, imminent, expired>>
        ELSE /\ imminent' = ImminentAfter(item, today, imminent)
             /\ expired' = ExpiredAfter(item, today, expired)
             /\ idx' = idx + 1
             /\ UNCHANGED <<pc, err>>
    /\ UNCHANGED <<clock, store, runtime, PUSHOVER_TOKEN, PUSHOVER_USER, loaded,
                   res_list, today, message, io, inv, ticks, execClock, execStore>>

\* the end of build_alert_message, lines 115-124
Compose ==
    /\ pc = "build"
    /\ idx > Len(res_list)
    /\ message' = ComposeMessage(imminent, expired)
    /\ pc' = "print"
    /\ UNCHANGED <<clock, store, runtime, PUSHOVER_TOKEN, PUSHOVER_USER, loaded,
                   res_list, today, idx, imminent, expired, err, io, inv, ticks,
                   execClock, execStore>>

\* print of the message, lines 154 and 171
PrintMessage_omitted ==
    /\ pc = "print"
    /\ pc' = "notify"
    /\ UNCHANGED <<clock, store, runtime, PUSHOVER_TOKEN, PUSHOVER_USER, loaded,
                   res_list, today, idx, imminent, expired, message, err, io, inv,
                   ticks, execClock, execStore>>

PrintMessage ==
    /\ pc = "print"
    /\ io' = Append(io, MessagePrinted(inv, message))
    /\ pc' = "notify"
    /\ UNCHANGED <<clock, store, runtime, PUSHOVER_TOKEN, PUSHOVER_USER, loaded,
                   res_list, today, idx, imminent, expired, message, err, inv,
                   ticks, execClock, execStore>>

\* `if PUSHOVER_TOKEN and PUSHOVER_USER`: None and "" are both false
Truthy(v) == v # None /\ v # ""

CredsPresent_either(token, user) == Truthy(token) \/ Truthy(user)

CredsPresent(token, user) == Truthy(token) /\ Truthy(user)

\* send_pushover("Grocery Alert", message) and the print that follows,
\* lines 126-143 and 157-158
SendPushover ==
    /\ pc = "notify"
    /\ CredsPresent(PUSHOVER_TOKEN, PUSHOVER_USER)
    /\ \E outcome \in {"ok", "HTTPError", "Timeout"} :
        LET call == PushoverCall(inv, PUSHOVER_TOKEN, PUSHOVER_USER,
                                 "Grocery Alert", message)
        IN  IF outcome = "ok"
            THEN /\ io' = io \o <<call, SentPrinted(inv)>>
                 /\ pc' = "done"
                 /\ UNCHANGED err
            ELSE /\ io' = Append(io, call)
                 /\ pc' = "failed"
                 /\ err' = outcome
    /\ UNCHANGED <<clock, store, runtime, PUSHOVER_TOKEN, PUSHOVER_USER, loaded,
                   res_list, today, idx, imminent, expired, message, inv, ticks,
                   execClock, execStore>>

\* the else branch, lines 159-160
WarnNoCredentials ==
    /\ pc = "notify"
    /\ ~CredsPresent(PUSHOVER_TOKEN, PUSHOVER_USER)
    /\ io' = Append(io, WarningPrinted(inv))
    /\ pc' = "done"
    /\ UNCHANGED <<clock, store, runtime, PUSHOVER_TOKEN, PUSHOVER_USER, loaded,
                   res_list, today, idx, imminent, expired, message, err, inv,
                   ticks, execClock, execStore>>

-----------------------------------------------------------------------------
(* Environment *)

\* midnight passes
Tick ==
    /\ ticks < MaxTicks
    /\ ticks' = ticks + 1
    /\ clock' = NextDay(clock)
    /\ UNCHANGED <<store, runtime, PUSHOVER_TOKEN, PUSHOVER_USER, loaded, res_list,
                   today, pc, idx, imminent, expired, message, err, io, inv,
                   execClock, execStore>>

\* somebody deletes the first record of the database; the program reads
\* the database only in LoadModule, so changes are modelled between runs
StoreRemove ==
    /\ pc \in {"idle", "done", "failed"}
    /\ store # <<>>
    /\ store' = Tail(store)
    /\ UNCHANGED <<clock, runtime, PUSHOVER_TOKEN, PUSHOVER_USER, loaded, res_list,
                   today, pc, idx, imminent, expired, message, err, io, inv, ticks,
                   execClock, execStore>>

-----------------------------------------------------------------------------
(* Specifications *)

\* a fresh process: nothing imported yet
Init ==
    /\ clock = StartDay
    /\ store \in SeqsUpTo(StoredPalette, MaxStored)
    /\ runtime \in {"script", "lambda"}
    /\ PUSHOVER_TOKEN \in Tokens
    /\ PUSHOVER_USER \in Users
    /\ loaded = "no"
    /\ res_list = <<>>
    /\ today = clock
    /\ pc = "idle"
    /\ idx = 1
    /\ imminent = <<>>
    /\ expired = <<>>
    /\ message = <<>>
    /\ err = ""
    /\ io = <<>>
    /\ inv = 0
    /\ ticks = 0
    /\ execClock = clock
    /\ execStore = store

Next ==
    \/ LoadModule
    \/ lambda_handler
    \/ main
    \/ LoopBody
    \/ Compose
    \/ PrintMessage
    \/ SendPushover
    \/ WarnNoCredentials
    \/ Tick
    \/ StoreRemove

Spec == Init /\ [][Next]_vars

\* build_alert_message alone, on every collection and date of the inputs
InitBuild ==
    /\ today \in Todays
    /\ res_list \in SeqsUpTo(Palette, MaxRecords)
    /\ clock = today
    /\ store = res_list
    /\ runtime = "lambda"
    /\ PUSHOVER_TOKEN = None
    /\ PUSHOVER_USER = None
    /\ loaded = "ok"
    /\ pc = "build"
    /\ idx = 1
    /\ imminent = <<>>
    /\ expired = <<>>
    /\ message = <<>>
    /\ err = ""
    /\ io = <<QueryCall(0)>>
    /\ inv = 1
    /\ ticks = 0
    /\ execClock = clock
    /\ execStore = store

NextBuild ==
    \/ LoopBody
    \/ Compose

SpecBuild == InitBuild /\ [][NextBuild]_vars

-----------------------------------------------------------------------------
(* Claims about build_alert_message, checked under SpecBuild *)

\* the record the loop is about to process
AtRecord == pc = "build" /\ idx <= Len(res_list)

ExpireIsNull(item) == item.ExpireOn.kind \in {"date_null", "start_null"}

BucketsKept == imminent' = imminent /\ expired' = expired

\* C1: an iteration over a record that has no expiration date (the date
\* object or its start is null) leaves both buckets as they were, whatever
\* the record's status, title and quantity are.
C1_NoDateNoLine ==
    [][(AtRecord /\ ExpireIsNull(res_list[idx])) => BucketsKept]_vars

\* a finished run over a watched record without a date and a record that
\* did get its line
C1_Witness ==
    /\ pc = "print"
    /\ Len(res_list) = 2
    /\ res_list[1].ExpireOn.kind = "start_null"
    /\ res_list[1].Status = "Consuming"
    /\ Len(imminent) + Len(expired) = 1

\* C2: an iteration over a record whose Status is neither "Consuming" nor
\* "Before" leaves both buckets as they were, for every expiration date and
\* every today.
C2_UnwatchedNoLine ==
    [][(AtRecord /\ res_list[idx].Status \notin {"Consuming", "Before"})
        => BucketsKept]_vars

\* a finished run over a "Done" record already expired and a "Done" record
\* expiring today: the buckets are empty
C2_Witness ==
    /\ pc = "print"
    /\ Len(res_list) = 2
    /\ today = <<2024, 1, 10>>
    /\ res_list[1].Status = "Done"
    /\ res_list[1].ExpireOn = Start(<<2024, 1, 5>>, "")
    /\ res_list[2].Status = "Done"
    /\ res_list[2].ExpireOn = Start(<<2024, 1, 10>>, "")
    /\ imminent = <<>>
    /\ expired = <<>>

\* the line a record is expected to print, from its raw fields
ExpectedLine(item, mark, n) ==
    [mark |-> mark,
     title |-> IF item.Name = <<>> THEN PlaceholderTitle ELSE item.Name[1],
     balance |-> IF item.Balance = AbsentString THEN "None" ELSE item.Balance,
     n |-> n,
     date |-> item.ExpireOn.date]

\* C3: an iteration over a record with a watched status and an expiration
\* date, days_left being the date minus today in days: it appends exactly
\* one imminent line D-<days_left> and nothing else iff 0 <= days_left <= 3,
\* exactly one expired line D+<-days_left> and nothing else iff
\* days_left < 0, and nothing at all iff days_left > 3.
C3_Classification ==
    [][(/\ AtRecord
        /\ res_list[idx].Status \in {"Consuming", "Before"}
        /\ res_list[idx].ExpireOn.kind = "start")
       => LET item == res_list[idx]
              days_left == ToOrdinal(item.ExpireOn.date) - ToOrdinal(today)
          IN  /\ (0 <= days_left /\ days_left <= 3)
                    => /\ imminent' = Append(imminent, ExpectedLine(item, "D-", days_left))
                       /\ expired' = expired
              /\ days_left < 0
                    => /\ expired' = Append(expired, ExpectedLine(item, "D+", -days_left))
                       /\ imminent' = imminent
              /\ days_left > 3 => BucketsKept]_vars

\* today 2024-01-10: 2024-01-12 "Consuming" is imminent with D-2 and
\* 2024-01-05 "Before" is expired with D+5
C3_Witness ==
    /\ pc = "print"
    /\ today = <<2024, 1, 10>>
    /\ Len(imminent) = 1
    /\ imminent[1].mark = "D-"
    /\ imminent[1].n = 2
    /\ imminent[1].date = <<2024, 1, 12>>
    /\ Len(expired) = 1
    /\ expired[1].mark = "D+"
    /\ expired[1].n = 5
    /\ expired[1].date = <<2024, 1, 5>>

\* the lines with the given mark that the records of data print, in order
RECURSIVE LinesOf(_, _, _)
LinesOf(data, day, mark) ==
    IF data = <<>> THEN <<>>
    ELSE LET item == data[1]
             n == ToOrdinal(item.ExpireOn.date) - ToOrdinal(day)
             mine ==
                 IF item.Status \in {"Consuming", "Before"} /\ item.ExpireOn.kind = "start"
                    /\ (IF mark = "D-" THEN 0 <= n /\ n <= 3 ELSE n < 0)
                 THEN <<ExpectedLine(item, mark, IF n < 0 THEN -n ELSE n)>>
                 ELSE <<>>
         IN  mine \o LinesOf(Tail(data), day, mark)

\* C5: the returned text is the fallback message iff both buckets are
\* empty; otherwise it is one section per non-empty bucket, a header line
\* followed by the bucket's lines in record order, the imminent section
\* first and exactly one blank line between the two sections.
C5_MessageLayout ==
    pc = "print" =>
        /\ imminent = LinesOf(res_list, today, "D-")
        /\ expired = LinesOf(res_list, today, "D+")
        /\ (message = Fallback) <=> (imminent = <<>> /\ expired = <<>>)
        /\ (imminent # <<>> /\ expired = <<>>)
              => message = <<ImminentHeader>> \o imminent
        /\ (imminent = <<>> /\ expired # <<>>)
              => message = <<ExpiredHeader>> \o expired
        /\ (imminent # <<>> /\ expired # <<>>)
              => message = <<ImminentHeader>> \o imminent
                           \o <<BlankLine, ExpiredHeader>> \o expired

\* a text with both sections
C5_Witness ==
    /\ pc = "print"
    /\ imminent # <<>>
    /\ expired # <<>>
    /\ Len(message) = 5

\* C10: a record whose expiration date field is null (the date object or
\* its start), and whose other fields are well formed, never aborts the
\* run of build_alert_message.
C10_NullExpireNeverAborts ==
    (pc = "failed" /\ idx <= Len(res_list) /\ ExpireIsNull(res_list[idx]))
        => res_list[idx].Status = MissingStatus

-----------------------------------------------------------------------------
(* Claims about a whole process run, checked under Spec *)

\* the positions of io holding an event of invocation k on a channel
Calls(chan, what, k) ==
    {i \in 1..Len(io) : io[i].chan = chan /\ io[i].what = what /\ io[i].inv = k}

BothCredentials ==
    PUSHOVER_TOKEN \notin {None, ""} /\ PUSHOVER_USER \notin {None, ""}

\* the running execution has left its entry point, normally or by an
\* exception
Ended == inv >= 1 /\ pc \in {"done", "failed"}

\* the running execution got its message from build_alert_message and has
\* left the entry point
EndedAfterCompose ==
    inv >= 1 /\ (pc = "done" \/ (pc = "failed" /\ err \in {"HTTPError", "Timeout"}))

\* C4 as stated: every execution of the entry point issues exactly one POST
\* when both credentials are present, and none but a warning otherwise.
C4_AsStated ==
    Ended =>
        IF BothCredentials
        THEN Cardinality(Calls("pushover", "POST", inv)) = 1
        ELSE /\ Calls("pushover", "POST", inv) = {}
             /\ Calls("console", "warning", inv) # {}

\* C4 (amended): an execution of the entry point in which
\* build_alert_message returns issues exactly one POST to the push endpoint,
\* with the fields token, user, title and message, when both credentials are
\* present; when either is absent it issues none and prints one warning.
\* No execution issues more than one POST.
C4_Notifier ==
    /\ \A k \in 1..inv : Cardinality(Calls("pushover", "POST", k)) <= 1
    /\ EndedAfterCompose =>
        IF BothCredentials
        THEN /\ Cardinality(Calls("pushover", "POST", inv)) = 1
             /\ Calls("console", "warning", inv) = {}
             /\ \A i \in Calls("pushover", "POST", inv) :
                    io[i].body = [token |-> PUSHOVER_TOKEN, user |-> PUSHOVER_USER,
                                  title |-> "Grocery Alert", message |-> message]
        ELSE /\ Calls("pushover", "POST", inv) = {}
             /\ Cardinality(Calls("console", "warning", inv)) = 1

\* only the user key is missing: no POST, one warning
C4_Witness ==
    /\ pc = "done"
    /\ PUSHOVER_TOKEN = "app-token"
    /\ PUSHOVER_USER = None
    /\ Calls("pushover", "POST", inv) = {}
    /\ Calls("console", "warning", inv) # {}
    /\ inv = 2
    /\ Cardinality(Calls("console", "warning", 1)) = 1

\* C6: every invocation performs its own fetch_items call and builds its
\* buckets from the records that call returned.
C6_FetchPerInvocation ==
    inv >= 1 =>
        /\ Cardinality({i \in 1..Len(io) : io[i].chan = "notion"}) = inv
        /\ pc = "build" => res_list = execStore

\* C7: every invocation computes against the date current when that
\* invocation started.
C7_DateOfInvocation ==
    pc = "build" => today = execClock

\* C8: a POST to the push endpoint is preceded on the console by the message
\* it carries, and a composed message is on the console as soon as the
\* entry point moves on, with or without credentials and whether or not the
\* send fails.
C8_PrintedBeforeSend ==
    /\ \A i \in 1..Len(io) :
          io[i].chan = "pushover" =>
              \E j \in 1..(i - 1) : io[j] = MessagePrinted(io[i].inv, io[i].body.message)
    /\ (inv >= 1 /\ (pc \in {"notify", "done"}
                     \/ (pc = "failed" /\ err \in {"HTTPError", "Timeout"})))
          => \E j \in 1..Len(io) : io[j] = MessagePrinted(inv, message)

\* the send failed after the message was printed
C8_Witness ==
    /\ inv >= 1
    /\ pc = "failed"
    /\ err = "HTTPError"
    /\ Calls("pushover", "POST", inv) # {}
    /\ Calls("console", "message", inv) # {}

\* a record one of the extractors cannot read
Malformed(item) == item.Status = MissingStatus \/ item.ExpireOn.kind = "date_null"

\* the text of the buckets of all the fetched records
FullMessage ==
    LET imm == LinesOf(res_list, today, "D-")
        exp == LinesOf(res_list, today, "D+")
    IN  IF imm = <<>> /\ exp = <<>> THEN Fallback
        ELSE IF exp = <<>> THEN <<ImminentHeader>> \o imm
        ELSE IF imm = <<>> THEN <<ExpiredHeader>> \o exp
        ELSE <<ImminentHeader>> \o imm \o <<BlankLine, ExpiredHeader>> \o exp

\* C9 as stated: an execution that does not fail has sent one notification.
C9_AsStated ==
    (inv >= 1 /\ pc = "done") => Cardinality(Calls("pushover", "POST", inv)) = 1

\* C9 (amended): an execution either processes the full batch, prints the
\* message built from all records and then sends one notification if both
\* credentials are present (prints a warning otherwise), or it fails.  When
\* the fetch fails or any record is malformed nothing is printed and no POST
\* is issued; no text printed or sent is built from a subset of the records.
C9_NoPartialBatch ==
    /\ \A i \in 1..Len(io) :
          /\ (io[i].chan = "console" /\ io[i].what = "message")
                => io[i].body = FullMessage
          /\ io[i].chan = "pushover" => io[i].body.message = FullMessage
    /\ (loaded = "failed" \/ \E k \in 1..Len(res_list) : Malformed(res_list[k]))
          => \A i \in 1..Len(io) : io[i].chan = "notion"
    /\ (inv >= 1 /\ pc = "done")
          => /\ Calls("console", "message", inv) # {}
             /\ BothCredentials => Cardinality(Calls("pushover", "POST", inv)) = 1
             /\ ~BothCredentials => Calls("console", "warning", inv) # {}

\* the run fails on its second record after the first one got its line:
\* nothing has been printed or sent
C9_Witness ==
    /\ pc = "failed"
    /\ idx = 2
    /\ Len(imminent) + Len(expired) = 1
    /\ Malformed(res_list[2])
    /\ BothCredentials
    /\ \A i \in 1..Len(io) : io[i].chan = "notion"

====
